---- MODULE Spec2Model ----
(***************************************************************************)
(* A model of the multi-modal RAG system: the PDF extractor                *)
(* (rag/combine.py), the unit normaliser (rag/lang_doc.py), the chunker    *)
(* (rag/smart_chunking.py), the context assembler and the vector store     *)
(* helpers (rag/chain.py) and the upload/query handlers (backend/api.py).  *)
(*                                                                         *)
(* Python strings are sequences of one-character strings, so that split,   *)
(* strip, len, concatenation and formatting are computed as Python         *)
(* computes them.                                                          *)
(***************************************************************************)
EXTENDS Integers, Sequences, FiniteSets, TLC

VARIABLES
    pc,             \* position of the running function / last handler
    \* smart_text_chunker
    doc, max_chars, paragraphs, para_i, buffer, chunks,
    \* raw_document_text / get_langchain_docs / get_chunked_docs
    pdf, page_index, raw_docs, documents, doc_i, chunked_docs,
    \* format_docs_with_metadata
    docs, formatted, result,
    \* backend/api.py
    request, upload_dir, vectorstore, system_stats, response, llm_calls,
    \* the requests in flight, the event loop and the files at VECTOR_PATH
    handlers, loop, vector_path

chunkerVars == <<doc, max_chars, paragraphs, para_i, buffer, chunks>>
extractVars == <<pdf, page_index, raw_docs, documents, doc_i, chunked_docs>>
formatVars  == <<docs, formatted, result>>
apiVars     == <<request, upload_dir, vectorstore, system_stats, response, llm_calls>>
loopVars    == <<handlers, loop, vector_path>>
vars == <<pc, chunkerVars, extractVars, formatVars, apiVars, loopVars>>

----------------------------------------------------------------------------
(* Bounds of the model *)

\* longest text of a text unit handed to smart_text_chunker
MaxLen == 5
\* largest max_chars tried on smart_text_chunker
MaxCharsBound == 6
\* the default max_chars of smart_text_chunker (500 in the source), scaled to
\* the lengths of the texts of the model
DefaultMaxChars == 3
\* most pages of a PDF
MaxPages == 2
\* most chunks handed to format_docs_with_metadata
MaxDocs == 3
\* most successful uploads in a run
MaxUploads == 2
\* most language-model calls in a run
MaxLlmCalls == 2

----------------------------------------------------------------------------
(* Python strings *)

NL == "\n"
\* the characters of the texts: two letters, the space and the newline
Chars == {"a", "b", " ", NL}
\* what str.strip() removes
Whitespace == {" ", NL}

\* all strings over S of length lo..hi
StringsOf(S, lo, hi) == UNION {[1..n -> S] : n \in lo..hi}

\* "\n\n", the paragraph separator
Sep == <<NL, NL>>

\* s[i:] (0-based i, as Python)
From(s, i) == SubSeq(s, i + 1, Len(s))

\* s.endswith(suffix)
EndsWith(s, suffix) ==
    /\ Len(suffix) <= Len(s)
    /\ SubSeq(s, Len(s) - Len(suffix) + 1, Len(s)) = suffix

\* s.find("\n\n"): the 0-based index of the first occurrence, or -1
FindSep(s) ==
    LET hits == {i \in 1..(Len(s) - 1) : s[i] = NL /\ s[i + 1] = NL}
    IN  IF hits = {} THEN -1
        ELSE (CHOOSE i \in hits : \A j \in hits : i <= j) - 1

\* s.split("\n\n"): never empty, "" gives [""]
RECURSIVE Split(_)
Split(s) ==
    LET k == FindSep(s)
    IN  IF k = -1 THEN <<s>>
        ELSE <<SubSeq(s, 1, k)>> \o Split(From(s, k + 2))

RECURSIVE LStrip(_)
LStrip(s) ==
    IF s # <<>> /\ s[1] \in Whitespace THEN LStrip(Tail(s)) ELSE s

RECURSIVE RStrip(_)
RStrip(s) ==
    IF s # <<>> /\ s[Len(s)] \in Whitespace
    THEN RStrip(SubSeq(s, 1, Len(s) - 1)) ELSE s

\* s.strip()
Strip(s) == RStrip(LStrip(s))

\* "sep".join(parts)
RECURSIVE Join(_, _)
Join(sep, parts) ==
    IF parts = <<>> THEN <<>>
    ELSE IF Len(parts) = 1 THEN parts[1]
    ELSE parts[1] \o sep \o Join(sep, Tail(parts))

----------------------------------------------------------------------------
(* Documents: langchain Document(page_content, metadata) *)

Document(page_content, metadata) ==
    [page_content |-> page_content, metadata |-> metadata]

TextMeta(page) == [page |-> page, type |-> "text"]

----------------------------------------------------------------------------
(* smart_text_chunker (rag/smart_chunking.py) *)

\* a packing test that forgets the paragraph it is about to append
FitsIgnoringPara(buf, para, max) == Len(buf) <= max

\* a packing test that also counts the separator of the paragraph to append
FitsWithSeparator(buf, para, max) == Len(buf) + Len(para) + Len(Sep) <= max

\* the test of the packing loop
Fits(buf, para, max) == Len(buf) + Len(para) <= max

\* a flush that forgets to strip the buffer
FlushUnstripped(buf, metadata) == Document(buf, metadata)

\* the chunk made of a buffer
Flush(buf, metadata) == Document(Strip(buf), metadata)

\* one iteration of `for para in paragraphs`, on the pair (buffer, chunks)
PackStep(st, para, metadata, max) ==
    IF Fits(st.buffer, para, max)
    THEN [buffer |-> st.buffer \o para \o Sep, chunks |-> st.chunks]
    ELSE [buffer |-> para \o Sep,
          chunks |-> Append(st.chunks, Flush(st.buffer, metadata))]

\* the flush after the loop: `if buffer.strip()`
FinalFlush(st, metadata) ==
    IF Strip(st.buffer) # <<>>
    THEN Append(st.chunks, Flush(st.buffer, metadata))
    ELSE st.chunks

RECURSIVE PackAll(_, _, _, _)
PackAll(st, paras, metadata, max) ==
    IF paras = <<>> THEN st
    ELSE PackAll(PackStep(st, paras[1], metadata, max), Tail(paras), metadata, max)

\* the whole function
smart_text_chunker(d, max) ==
    FinalFlush(PackAll([buffer |-> <<>>, chunks |-> <<>>],
                       Split(d.page_content), d.metadata, max),
               d.metadata)

\* the text units the chunker is called on: page.extract_text() results that
\* passed `if text` (non-empty), on some page
TextUnits ==
    {Document(s, TextMeta(p)) : s \in StringsOf(Chars, 1, MaxLen), p \in {1, 2}}

----------------------------------------------------------------------------
(* raw_document_text (rag/combine.py), get_langchain_docs (rag/lang_doc.py) *)

\* str(n) for n >= 0
RECURSIVE IntToStr(_)
IntToStr(n) ==
    LET digit(d) == CASE d = 0 -> "0" [] d = 1 -> "1" [] d = 2 -> "2"
                      [] d = 3 -> "3" [] d = 4 -> "4" [] d = 5 -> "5"
                      [] d = 6 -> "6" [] d = 7 -> "7" [] d = 8 -> "8"
                      [] d = 9 -> "9"
    IN  IF n < 10 THEN <<digit(n)>>
        ELSE IntToStr(n \div 10) \o <<digit(n % 10)>>

\* f"Table {t_idx + 1}" (t_idx 0-based)
TableRef(t_idx) == <<"T", "a", "b", "l", "e", " ">> \o IntToStr(t_idx + 1)
\* f"Image {img_idx + 1}" (img_idx 0-based)
ImageRef(img_idx) == <<"I", "m", "a", "g", "e", " ">> \o IntToStr(img_idx + 1)

TableMeta(page, t_idx) == [page |-> page, type |-> "table", ref |-> TableRef(t_idx)]
ImageMeta(page, img_idx) == [page |-> page, type |-> "image", ref |-> ImageRef(img_idx)]

\* an item of raw_document_text: {"content": ..., "metadata": ...}
RawItem(content, metadata) == [content |-> content, metadata |-> metadata]

\* What the libraries give for a page: the text layer (page.extract_text()),
\* the tables camelot finds, rendered by df.to_string (or camelot raising),
\* and the embedded images with what OCR reads in each (or the decoding or
\* the OCR of an image raising).
PageTexts == { <<>>,
               <<"a", NL, NL, "b", "b">>,
               <<"a", "b", "a", "b">> }
PageTables == { [ok |-> TRUE, tables |-> <<>>],
                [ok |-> TRUE, tables |-> << <<"a", "b", NL, NL, "b", "a">>, <<"b">> >>],
                [ok |-> FALSE, tables |-> <<>>] }
PageImages == { <<>>,
                << [ok |-> TRUE, ocr |-> <<" ", NL>>], [ok |-> TRUE, ocr |-> <<"b", "a", NL>>] >>,
                << [ok |-> TRUE, ocr |-> <<"a">>], [ok |-> FALSE, ocr |-> <<>>] >> }
Pages == [text : PageTexts, tables : PageTables, images : PageImages]

\* the PDF files: one that cannot be opened, and the openable ones
Pdfs == {[openable |-> FALSE, pages |-> <<>>]}
        \cup {[openable |-> TRUE, pages |-> ps] :
                 ps \in UNION {[1..n -> Pages] : n \in 1..MaxPages}}

\* the text item of a page: `if text`
TextItems(page, index) ==
    IF page.text # <<>> THEN <<RawItem(page.text, TextMeta(index))>> ELSE <<>>

\* the table items of a page, once camelot.read_pdf has returned
RECURSIVE TableItems(_, _, _)
TableItems(tables, index, t_idx) ==
    IF t_idx >= Len(tables) THEN <<>>
    ELSE <<RawItem(tables[t_idx + 1], TableMeta(index, t_idx))>>
         \o TableItems(tables, index, t_idx + 1)

\* the image loop of a page from image img_idx on: the items appended, and
\* whether an image raised (the loop stops there)
RECURSIVE ImageLoop(_, _, _)
ImageLoop(images, index, img_idx) ==
    IF img_idx >= Len(images) THEN [raised |-> FALSE, items |-> <<>>]
    ELSE LET img == images[img_idx + 1]
             rest == ImageLoop(images, index, img_idx + 1)
         IN  IF ~img.ok THEN [raised |-> TRUE, items |-> <<>>]
             ELSE [raised |-> rest.raised,
                   items |-> (IF Strip(img.ocr) # <<>>
                              THEN <<RawItem(img.ocr, ImageMeta(index, img_idx))>>
                              ELSE <<>>) \o rest.items]

\* one iteration of the page loop: the items appended to `documents`, and
\* whether the iteration raised (nothing in the function catches)
ExtractPage(page, index) ==
    IF ~page.tables.ok
    THEN [raised |-> TRUE, items |-> TextItems(page, index)]
    ELSE LET imgs == ImageLoop(page.images, index, 0)
         IN  [raised |-> imgs.raised,
              items |-> TextItems(page, index)
                        \o TableItems(page.tables.tables, index, 0)
                        \o imgs.items]

\* the page loop from page `index` on
RECURSIVE ExtractPages(_, _)
ExtractPages(pages, index) ==
    IF index > Len(pages) THEN [raised |-> FALSE, items |-> <<>>]
    ELSE LET here == ExtractPage(pages[index], index)
             rest == ExtractPages(pages, index + 1)
         IN  IF here.raised THEN here
             ELSE [raised |-> rest.raised, items |-> here.items \o rest.items]

\* the whole function: the list returned, or raised
raw_document_text(f) ==
    IF ~f.openable THEN [raised |-> TRUE, items |-> <<>>]
    ELSE ExtractPages(f.pages, 1)

\* get_langchain_docs: one Document per item, in order
get_langchain_docs(items) ==
    [i \in 1..Len(items) |-> Document(items[i].content, items[i].metadata)]

----------------------------------------------------------------------------
(* get_chunked_docs (rag/smart_chunking.py) *)

\* a dispatch that sends tables through the text chunker too
ChunksOfChunkingTables(d, max) ==
    CASE d.metadata.type \in {"text", "table"} -> smart_text_chunker(d, max)
      [] d.metadata.type = "image" -> <<d>>
      [] OTHER -> <<>>

\* one iteration of `for doc in documents`: what is added to chunked_docs
ChunksOf(d, max) ==
    CASE d.metadata.type = "text"  -> smart_text_chunker(d, max)
      [] d.metadata.type = "table" -> <<d>>
      [] d.metadata.type = "image" -> <<d>>
      [] OTHER -> <<>>

RECURSIVE ChunkAll(_, _)
ChunkAll(ds, max) ==
    IF ds = <<>> THEN <<>> ELSE ChunksOf(ds[1], max) \o ChunkAll(Tail(ds), max)

\* the whole function: the chunks returned, or raised (by raw_document_text)
get_chunked_docs(f) ==
    LET raw == raw_document_text(f)
    IN  IF raw.raised THEN [raised |-> TRUE, chunks |-> <<>>]
        ELSE [raised |-> FALSE,
              chunks |-> ChunkAll(get_langchain_docs(raw.items), DefaultMaxChars)]

----------------------------------------------------------------------------
(* format_docs_with_metadata (rag/chain.py) *)

\* f"{meta.get('page')}"
PageStr(meta) ==
    IF "page" \in DOMAIN meta THEN IntToStr(meta.page) ELSE <<"N", "o", "n", "e">>

\* `if meta.get("ref")`: the key is there and its value is not empty
HasRef(meta) == "ref" \in DOMAIN meta /\ meta.ref # <<>>

\* a citation that leaves the reference out
CitationWithoutRef(meta) ==
    <<"(", "P", "a", "g", "e", " ">> \o PageStr(meta) \o <<")">>

\* the citation of a chunk
Citation(meta) ==
    <<"(", "P", "a", "g", "e", " ">> \o PageStr(meta)
    \o (IF HasRef(meta) THEN <<",", " ">> \o meta.ref ELSE <<>>)
    \o <<")">>

\* f"{citation}\n{d.page_content}"
FormatBlock(d) == Citation(d.metadata) \o <<NL>> \o d.page_content

\* the whole function
format_docs_with_metadata(ds) ==
    Join(Sep, [i \in 1..Len(ds) |-> FormatBlock(ds[i])])

\* chunks a retriever can hand over: text, table and image chunks
RetrievedChunks ==
    {Document(c, m) :
        c \in { <<"a">>, <<"b", NL, NL, "a">> },
        m \in { TextMeta(7), TableMeta(4, 1), ImageMeta(12, 0) }}

----------------------------------------------------------------------------
(* store_documents, load_documents (rag/chain.py) *)

\* what is at VECTOR_PATH: nothing, or the saved index with its documents
NoIndex == [exists |-> FALSE, docs |-> <<>>]

\* store_documents: FAISS.from_documents builds a new index of `ds` alone and
\* save_local writes it at VECTOR_PATH, over what was there
StoreDocuments(old, ds) == [exists |-> TRUE, docs |-> ds]

NotFoundMessage == "Vectorstore not found,Upload Your Document First"

\* a load that takes a missing index for an empty one
LoadOrEmpty(vs) == [raised |-> FALSE, docs |-> vs.docs]

\* load_documents: raises ValueError when nothing is at VECTOR_PATH
LoadDocuments(vs) ==
    IF ~vs.exists THEN [raised |-> TRUE, docs |-> <<>>]
    ELSE [raised |-> FALSE, docs |-> vs.docs]

----------------------------------------------------------------------------
(* The files of the index and the event loop *)

\* a file of the index directory: missing, or written with the documents of
\* one ingestion
MissingFile == [present |-> FALSE, docs |-> <<>>]
WrittenFile(ds) == [present |-> TRUE, docs |-> ds]

\* VECTOR_PATH as save_local and load_local see it: the directory, the
\* vectors (index.faiss) and the documents the vectors point to (index.pkl),
\* written and read one after the other
NoFiles == [exists |-> FALSE, faiss |-> MissingFile, pkl |-> MissingFile]

\* the clients that send requests
Clients == {"c1", "c2"}

\* the value of `loop` when no handler is running
NoHandler == "none"

\* str(e) of the exception of load_local on a file that is not there
MissingFileMessage == "could not open index file"

\* what a request has loaded of the index
NothingLoaded == [faiss |-> MissingFile, pkl |-> MissingFile]

\* a client with no request in flight
IdleHandler ==
    [pc |-> "idle", op |-> "none", chunks |-> <<>>,
     loaded |-> NothingLoaded, status |-> 0, detail |-> ""]

\* handlers that run in worker threads, as plain `def` handlers would
MayStepInThread(c) == TRUE

\* The handlers are coroutines (`async def`) without any await: the event
\* loop runs a handler's steps only while no other handler has started and
\* not finished.
MayStep(c) == loop \in {NoHandler, c}

----------------------------------------------------------------------------
(* The uploads and queries of backend/api.py *)

PdfSuffix == <<".", "p", "d", "f">>

FileNames == { <<"a">> \o PdfSuffix, <<"b">> \o PdfSuffix,
               <<"c", ".", "t", "x", "t">> }

\* the contents uploaded: a file no PDF library opens; a PDF with text and
\* tables; a PDF with an oversized paragraph and images; a PDF with nothing
\* to extract; a PDF on which camelot raises
UnopenablePdf == [openable |-> FALSE, pages |-> <<>>]
OnePage(text, tables, images) ==
    [openable |-> TRUE,
     pages |-> <<[text |-> text, tables |-> tables, images |-> images]>>]
UploadContents ==
    { UnopenablePdf,
      OnePage(<<"a", NL, NL, "b", "b">>,
              [ok |-> TRUE, tables |-> << <<"a", "b", NL, NL, "b", "a">>, <<"b">> >>],
              <<>>),
      OnePage(<<"a", "b", "a", "b">>,
              [ok |-> TRUE, tables |-> <<>>],
              << [ok |-> TRUE, ocr |-> <<" ", NL>>], [ok |-> TRUE, ocr |-> <<"b", "a", NL>>] >>),
      OnePage(<<>>, [ok |-> TRUE, tables |-> <<>>], <<>>),
      OnePage(<<"a", "b", "a", "b">>, [ok |-> FALSE, tables |-> <<>>], <<>>) }

UploadedFiles == [filename : FileNames, pdf : UploadContents]

Questions == {"q"}

IdleChunker ==
    /\ doc = Document(<<>>, TextMeta(1))
    /\ max_chars = DefaultMaxChars
    /\ paragraphs = <<>>
    /\ para_i = 0
    /\ buffer = <<>>
    /\ chunks = <<>>

IdleExtract ==
    /\ pdf = [openable |-> FALSE, pages |-> <<>>]
    /\ page_index = 0
    /\ raw_docs = <<>>
    /\ documents = <<>>
    /\ doc_i = 0
    /\ chunked_docs = <<>>

IdleFormat ==
    /\ docs = <<>>
    /\ formatted = <<>>
    /\ result = <<>>

\* the service as it starts: no request yet, an empty upload directory
\* (os.makedirs), nothing at VECTOR_PATH, the counters at 0
IdleApi ==
    /\ request = [op |-> "none"]
    /\ upload_dir = {}
    /\ vectorstore = NoIndex
    /\ system_stats = [total_uploads |-> 0, total_queries |-> 0]
    /\ response = [status |-> 0]
    /\ llm_calls = 0
    /\ handlers = [c \in Clients |-> IdleHandler]
    /\ loop = NoHandler
    /\ vector_path = NoFiles

\* a call smart_text_chunker(doc, max_chars): the state on entering the loop
ChunkerInit ==
    /\ pc = "pack"
    /\ doc \in TextUnits
    /\ max_chars \in 1..MaxCharsBound
    /\ paragraphs = Split(doc.page_content)
    /\ para_i = 1
    /\ buffer = <<>>
    /\ chunks = <<>>
    /\ IdleExtract /\ IdleFormat /\ IdleApi

\* an iteration that appends the paragraph to the buffer
ChunkerAppend ==
    /\ pc = "pack"
    /\ para_i <= Len(paragraphs)
    /\ Fits(buffer, paragraphs[para_i], max_chars)
    /\ buffer' = PackStep([buffer |-> buffer, chunks |-> chunks],
                          paragraphs[para_i], doc.metadata, max_chars).buffer
    /\ chunks' = PackStep([buffer |-> buffer, chunks |-> chunks],
                          paragraphs[para_i], doc.metadata, max_chars).chunks
    /\ para_i' = para_i + 1
    /\ UNCHANGED <<pc, doc, max_chars, paragraphs, extractVars, formatVars, apiVars, loopVars>>

\* an iteration that flushes the buffer and starts a new one
ChunkerFlush ==
    /\ pc = "pack"
    /\ para_i <= Len(paragraphs)
    /\ ~Fits(buffer, paragraphs[para_i], max_chars)
    /\ buffer' = PackStep([buffer |-> buffer, chunks |-> chunks],
                          paragraphs[para_i], doc.metadata, max_chars).buffer
    /\ chunks' = PackStep([buffer |-> buffer, chunks |-> chunks],
                          paragraphs[para_i], doc.metadata, max_chars).chunks
    /\ para_i' = para_i + 1
    /\ UNCHANGED <<pc, doc, max_chars, paragraphs, extractVars, formatVars, apiVars, loopVars>>

\* the end of the loop: the last flush and the return
ChunkerReturn ==
    /\ pc = "pack"
    /\ para_i > Len(paragraphs)
    /\ chunks' = FinalFlush([buffer |-> buffer, chunks |-> chunks], doc.metadata)
    /\ pc' = "returned"
    /\ UNCHANGED <<doc, max_chars, paragraphs, para_i, buffer,
                   extractVars, formatVars, apiVars, loopVars>>

ChunkerNext == ChunkerAppend \/ ChunkerFlush \/ ChunkerReturn

SpecChunker == ChunkerInit /\ [][ChunkerNext]_vars

----------------------------------------------------------------------------
(* A call get_chunked_docs(pdf), step by step *)

ExtractInit ==
    /\ pc = "open"
    /\ pdf \in Pdfs
    /\ page_index = 0
    /\ raw_docs = <<>>
    /\ documents = <<>>
    /\ doc_i = 0
    /\ chunked_docs = <<>>
    /\ IdleChunker /\ IdleFormat /\ IdleApi

\* pdfplumber.open / fitz.open succeed
OpenPdf ==
    /\ pc = "open"
    /\ pdf.openable
    /\ pc' = "pages"
    /\ page_index' = 1
    /\ UNCHANGED <<pdf, raw_docs, documents, doc_i, chunked_docs,
                   chunkerVars, formatVars, apiVars, loopVars>>

\* pdfplumber.open raises: the call ends with the exception
OpenRaises ==
    /\ pc = "open"
    /\ ~pdf.openable
    /\ pc' = "raised"
    /\ UNCHANGED <<extractVars, chunkerVars, formatVars, apiVars, loopVars>>

\* an iteration of the page loop that completes
PageDone ==
    /\ pc = "pages"
    /\ page_index <= Len(pdf.pages)
    /\ ~ExtractPage(pdf.pages[page_index], page_index).raised
    /\ raw_docs' = raw_docs \o ExtractPage(pdf.pages[page_index], page_index).items
    /\ page_index' = page_index + 1
    /\ UNCHANGED <<pc, pdf, documents, doc_i, chunked_docs,
                   chunkerVars, formatVars, apiVars, loopVars>>

\* an iteration of the page loop in which camelot, the image decoding or the
\* OCR raises: the exception leaves raw_document_text and get_chunked_docs
PageRaises ==
    /\ pc = "pages"
    /\ page_index <= Len(pdf.pages)
    /\ ExtractPage(pdf.pages[page_index], page_index).raised
    /\ raw_docs' = raw_docs \o ExtractPage(pdf.pages[page_index], page_index).items
    /\ pc' = "raised"
    /\ UNCHANGED <<pdf, page_index, documents, doc_i, chunked_docs,
                   chunkerVars, formatVars, apiVars, loopVars>>

\* raw_document_text returns; get_langchain_docs converts the items
ExtractReturn ==
    /\ pc = "pages"
    /\ page_index > Len(pdf.pages)
    /\ documents' = get_langchain_docs(raw_docs)
    /\ doc_i' = 1
    /\ pc' = "chunk"
    /\ UNCHANGED <<pdf, page_index, raw_docs, chunked_docs,
                   chunkerVars, formatVars, apiVars, loopVars>>

\* an iteration of `for doc in documents`
ChunkDoc ==
    /\ pc = "chunk"
    /\ doc_i <= Len(documents)
    /\ chunked_docs' = chunked_docs \o ChunksOf(documents[doc_i], DefaultMaxChars)
    /\ doc_i' = doc_i + 1
    /\ UNCHANGED <<pc, pdf, page_index, raw_docs, documents,
                   chunkerVars, formatVars, apiVars, loopVars>>

\* get_chunked_docs returns chunked_docs
ChunkedReturn ==
    /\ pc = "chunk"
    /\ doc_i > Len(documents)
    /\ pc' = "chunked"
    /\ UNCHANGED <<extractVars, chunkerVars, formatVars, apiVars, loopVars>>

ExtractNext ==
    \/ OpenPdf \/ OpenRaises \/ PageDone \/ PageRaises
    \/ ExtractReturn \/ ChunkDoc \/ ChunkedReturn

SpecExtract == ExtractInit /\ [][ExtractNext]_vars

----------------------------------------------------------------------------
(* A call format_docs_with_metadata(docs), step by step *)

FormatInit ==
    /\ pc = "format"
    /\ docs \in UNION {[1..n -> RetrievedChunks] : n \in 0..MaxDocs}
    /\ formatted = <<>>
    /\ result = <<>>
    /\ IdleChunker /\ IdleExtract /\ IdleApi

\* an iteration of `for d in docs`
FormatDoc ==
    /\ pc = "format"
    /\ Len(formatted) < Len(docs)
    /\ formatted' = Append(formatted, FormatBlock(docs[Len(formatted) + 1]))
    /\ UNCHANGED <<pc, docs, result, chunkerVars, extractVars, apiVars, loopVars>>

\* return "\n\n".join(formatted)
FormatReturn ==
    /\ pc = "format"
    /\ Len(formatted) = Len(docs)
    /\ result' = Join(Sep, formatted)
    /\ pc' = "formatted"
    /\ UNCHANGED <<docs, formatted, chunkerVars, extractVars, apiVars, loopVars>>

FormatNext == FormatDoc \/ FormatReturn

SpecFormat == FormatInit /\ [][FormatNext]_vars

----------------------------------------------------------------------------
(* The service: each action is one request, handled from start to end. The   *)
(* handlers are `async def` with no await in them, so the event loop runs    *)
(* one to its end before it starts the next.                                 *)

ApiInit ==
    /\ pc = "idle"
    /\ IdleApi
    /\ IdleChunker /\ IdleExtract /\ IdleFormat

HttpError(status, detail) == [status |-> status, detail |-> detail]

\* an exception no handler catches: the framework answers 500
InternalServerError == HttpError(500, "Internal Server Error")

\* POST /upload, file name not ending in .pdf: 400, nothing is done
UploadNotPdf ==
    \E file \in UploadedFiles :
        /\ ~EndsWith(file.filename, PdfSuffix)
        /\ pc' = "upload"
        /\ request' = [op |-> "upload", file |-> file]
        /\ response' = HttpError(400, "Only PDF files are supported")
        /\ UNCHANGED <<upload_dir, vectorstore, system_stats, llm_calls,
                       chunkerVars, extractVars, formatVars, loopVars>>

\* POST /upload, the file is written to upload_dir, then get_chunked_docs
\* raises (the PDF does not open, or a page's tables or images raise)
UploadExtractionRaises ==
    \E file \in UploadedFiles :
        /\ EndsWith(file.filename, PdfSuffix)
        /\ get_chunked_docs(file.pdf).raised
        /\ pc' = "upload"
        /\ request' = [op |-> "upload", file |-> file]
        /\ upload_dir' = upload_dir \cup {file.filename}
        /\ response' = InternalServerError
        /\ UNCHANGED <<vectorstore, system_stats, llm_calls,
                       chunkerVars, extractVars, formatVars, loopVars>>

\* POST /upload, the file is written, nothing is extracted from it: 500
UploadNoContent ==
    \E file \in UploadedFiles :
        /\ EndsWith(file.filename, PdfSuffix)
        /\ ~get_chunked_docs(file.pdf).raised
        /\ get_chunked_docs(file.pdf).chunks = <<>>
        /\ pc' = "upload"
        /\ request' = [op |-> "upload", file |-> file]
        /\ upload_dir' = upload_dir \cup {file.filename}
        /\ response' = HttpError(500, "No content extracted from PDF")
        /\ UNCHANGED <<vectorstore, system_stats, llm_calls,
                       chunkerVars, extractVars, formatVars, loopVars>>

\* POST /upload, the file is written and chunked, the embedding of the chunks
\* raises in FAISS.from_documents, before anything is saved
UploadEmbeddingRaises ==
    \E file \in UploadedFiles :
        /\ EndsWith(file.filename, PdfSuffix)
        /\ ~get_chunked_docs(file.pdf).raised
        /\ get_chunked_docs(file.pdf).chunks # <<>>
        /\ pc' = "upload"
        /\ request' = [op |-> "upload", file |-> file]
        /\ upload_dir' = upload_dir \cup {file.filename}
        /\ response' = InternalServerError
        /\ UNCHANGED <<vectorstore, system_stats, llm_calls,
                       chunkerVars, extractVars, formatVars, loopVars>>

\* POST /upload, the file is written, chunked, stored and counted
UploadIndexed ==
    \E file \in UploadedFiles :
        /\ system_stats.total_uploads < MaxUploads
        /\ EndsWith(file.filename, PdfSuffix)
        /\ ~get_chunked_docs(file.pdf).raised
        /\ get_chunked_docs(file.pdf).chunks # <<>>
        /\ pc' = "upload"
        /\ request' = [op |-> "upload", file |-> file]
        /\ upload_dir' = upload_dir \cup {file.filename}
        /\ vectorstore' = StoreDocuments(vectorstore, get_chunked_docs(file.pdf).chunks)
        /\ system_stats' = [system_stats EXCEPT !.total_uploads = @ + 1]
        /\ response' = [status |-> 200,
                        message |-> "PDF uploaded and indexed successfully",
                        chunks_created |-> Len(get_chunked_docs(file.pdf).chunks)]
        /\ UNCHANGED <<llm_calls, chunkerVars, extractVars, formatVars, loopVars>>

\* POST /query, load_documents raises: the handler answers 500 with the
\* exception's message
QueryLoadRaises ==
    \E input \in Questions :
        /\ LoadDocuments(vectorstore).raised
        /\ pc' = "query"
        /\ request' = [op |-> "query", input |-> input]
        /\ response' = HttpError(500, NotFoundMessage)
        /\ UNCHANGED <<upload_dir, vectorstore, system_stats, llm_calls,
                       chunkerVars, extractVars, formatVars, loopVars>>

\* POST /query, the index is loaded and the chain invoked, the language model
\* call raises: 500 with the exception's message
QueryModelRaises ==
    \E input \in Questions :
        /\ llm_calls < MaxLlmCalls
        /\ ~LoadDocuments(vectorstore).raised
        /\ pc' = "query"
        /\ request' = [op |-> "query", input |-> input]
        /\ llm_calls' = llm_calls + 1
        /\ response' = HttpError(500, "language model error")
        /\ UNCHANGED <<upload_dir, vectorstore, system_stats,
                       chunkerVars, extractVars, formatVars, loopVars>>

\* POST /query, the index is loaded, the chain answers, the query is counted
QueryAnswered ==
    \E input \in Questions :
        /\ llm_calls < MaxLlmCalls
        /\ ~LoadDocuments(vectorstore).raised
        /\ pc' = "query"
        /\ request' = [op |-> "query", input |-> input]
        /\ llm_calls' = llm_calls + 1
        /\ system_stats' = [system_stats EXCEPT !.total_queries = @ + 1]
        /\ response' = [status |-> 200, question |-> input, response |-> "answer"]
        /\ UNCHANGED <<upload_dir, vectorstore,
                       chunkerVars, extractVars, formatVars, loopVars>>

Next ==
    \/ UploadNotPdf \/ UploadExtractionRaises \/ UploadNoContent
    \/ UploadEmbeddingRaises \/ UploadIndexed
    \/ QueryLoadRaises \/ QueryModelRaises \/ QueryAnswered

Spec == ApiInit /\ [][Next]_vars

----------------------------------------------------------------------------
(* The service with several requests in flight: a request arrives at any     *)
(* time, and its handler runs in steps on the event loop; save_local and     *)
(* load_local touch the two files of the index one after the other.          *)

LoopInit ==
    /\ pc = "serving"
    /\ IdleApi
    /\ IdleChunker /\ IdleExtract /\ IdleFormat

Handler(c) == handlers[c]
SetHandler(c, h) == [handlers EXCEPT ![c] = h]

\* a client sends POST /upload or POST /query
Arrive(c) ==
    /\ Handler(c).pc \in {"idle", "done"}
    /\ \E op \in {"upload", "query"} :
          handlers' = SetHandler(c, [IdleHandler EXCEPT !.pc = "pending", !.op = op])
    /\ UNCHANGED <<pc, loop, vector_path, apiVars,
                   chunkerVars, extractVars, formatVars>>

\* upload_file up to an error: the name is not a .pdf one (400); or the file
\* is written and get_chunked_docs raises, extracts nothing, or the embedding
\* in FAISS.from_documents raises (500)
UploadFails(c) ==
    /\ MayStep(c)
    /\ Handler(c).pc = "pending" /\ Handler(c).op = "upload"
    /\ \E file \in UploadedFiles, embedded \in BOOLEAN :
          /\ \/ ~EndsWith(file.filename, PdfSuffix)
             \/ get_chunked_docs(file.pdf).raised
             \/ get_chunked_docs(file.pdf).chunks = <<>>
             \/ ~embedded
          /\ upload_dir' = IF EndsWith(file.filename, PdfSuffix)
                           THEN upload_dir \cup {file.filename} ELSE upload_dir
          /\ handlers' = SetHandler(c, [Handler(c) EXCEPT
                            !.pc = "done",
                            !.status = IF EndsWith(file.filename, PdfSuffix)
                                       THEN 500 ELSE 400])
    /\ loop' = NoHandler
    /\ UNCHANGED <<pc, request, vectorstore, system_stats, response, llm_calls,
                   vector_path, chunkerVars, extractVars, formatVars>>

\* upload_file up to the index built in memory by FAISS.from_documents
UploadEmbedded(c) ==
    /\ MayStep(c)
    /\ Handler(c).pc = "pending" /\ Handler(c).op = "upload"
    /\ system_stats.total_uploads < MaxUploads
    /\ \E file \in UploadedFiles :
          /\ EndsWith(file.filename, PdfSuffix)
          /\ ~get_chunked_docs(file.pdf).raised
          /\ get_chunked_docs(file.pdf).chunks # <<>>
          /\ upload_dir' = upload_dir \cup {file.filename}
          /\ handlers' = SetHandler(c, [Handler(c) EXCEPT
                            !.pc = "save",
                            !.chunks = get_chunked_docs(file.pdf).chunks])
    /\ loop' = c
    /\ UNCHANGED <<pc, request, vectorstore, system_stats, response, llm_calls,
                   vector_path, chunkerVars, extractVars, formatVars>>

\* save_local: the directory is made
SaveMkdir(c) ==
    /\ MayStep(c)
    /\ Handler(c).pc = "save"
    /\ vector_path' = [vector_path EXCEPT !.exists = TRUE]
    /\ handlers' = SetHandler(c, [Handler(c) EXCEPT !.pc = "save_faiss"])
    /\ loop' = c
    /\ UNCHANGED <<pc, apiVars, chunkerVars, extractVars, formatVars>>

\* save_local: index.faiss is written
SaveFaiss(c) ==
    /\ MayStep(c)
    /\ Handler(c).pc = "save_faiss"
    /\ vector_path' = [vector_path EXCEPT !.faiss = WrittenFile(Handler(c).chunks)]
    /\ handlers' = SetHandler(c, [Handler(c) EXCEPT !.pc = "save_pkl"])
    /\ loop' = c
    /\ UNCHANGED <<pc, apiVars, chunkerVars, extractVars, formatVars>>

\* save_local: index.pkl is written
SavePkl(c) ==
    /\ MayStep(c)
    /\ Handler(c).pc = "save_pkl"
    /\ vector_path' = [vector_path EXCEPT !.pkl = WrittenFile(Handler(c).chunks)]
    /\ handlers' = SetHandler(c, [Handler(c) EXCEPT !.pc = "count"])
    /\ loop' = c
    /\ UNCHANGED <<pc, apiVars, chunkerVars, extractVars, formatVars>>

\* the upload is counted and answered
UploadFinish(c) ==
    /\ MayStep(c)
    /\ Handler(c).pc = "count"
    /\ system_stats' = [system_stats EXCEPT !.total_uploads = @ + 1]
    /\ handlers' = SetHandler(c, [Handler(c) EXCEPT !.pc = "done", !.status = 200])
    /\ loop' = NoHandler
    /\ UNCHANGED <<pc, request, upload_dir, vectorstore, response, llm_calls,
                   vector_path, chunkerVars, extractVars, formatVars>>

\* get_response, load_documents finds no directory: 500
QueryNoIndex(c) ==
    /\ MayStep(c)
    /\ Handler(c).pc = "pending" /\ Handler(c).op = "query"
    /\ ~vector_path.exists
    /\ handlers' = SetHandler(c, [Handler(c) EXCEPT
                      !.pc = "done", !.status = 500, !.detail = NotFoundMessage])
    /\ loop' = NoHandler
    /\ UNCHANGED <<pc, apiVars, vector_path, chunkerVars, extractVars, formatVars>>

\* load_local reads index.faiss (and raises if the file is not there: 500)
LoadFaiss(c) ==
    /\ MayStep(c)
    /\ Handler(c).pc = "pending" /\ Handler(c).op = "query"
    /\ llm_calls < MaxLlmCalls
    /\ vector_path.exists
    /\ IF vector_path.faiss.present
       THEN /\ handlers' = SetHandler(c, [Handler(c) EXCEPT
                              !.pc = "load_pkl", !.loaded.faiss = vector_path.faiss])
            /\ loop' = c
       ELSE /\ handlers' = SetHandler(c, [Handler(c) EXCEPT
                              !.pc = "done", !.status = 500,
                              !.detail = MissingFileMessage])
            /\ loop' = NoHandler
    /\ UNCHANGED <<pc, apiVars, vector_path, chunkerVars, extractVars, formatVars>>

\* load_local reads index.pkl (and raises if the file is not there: 500)
LoadPkl(c) ==
    /\ MayStep(c)
    /\ Handler(c).pc = "load_pkl"
    /\ IF vector_path.pkl.present
       THEN /\ handlers' = SetHandler(c, [Handler(c) EXCEPT
                              !.pc = "answer", !.loaded.pkl = vector_path.pkl])
            /\ loop' = c
       ELSE /\ handlers' = SetHandler(c, [Handler(c) EXCEPT
                              !.pc = "done", !.status = 500,
                              !.detail = MissingFileMessage])
            /\ loop' = NoHandler
    /\ UNCHANGED <<pc, apiVars, vector_path, chunkerVars, extractVars, formatVars>>

\* the chain is invoked on the loaded index: the language model answers
\* (200, the query is counted) or raises (500)
QueryAnswer(c) ==
    /\ MayStep(c)
    /\ Handler(c).pc = "answer"
    /\ llm_calls < MaxLlmCalls
    /\ llm_calls' = llm_calls + 1
    /\ \E answered \in BOOLEAN :
          /\ system_stats' = IF answered
                             THEN [system_stats EXCEPT !.total_queries = @ + 1]
                             ELSE system_stats
          /\ handlers' = SetHandler(c, [Handler(c) EXCEPT
                            !.pc = "done",
                            !.status = IF answered THEN 200 ELSE 500])
    /\ loop' = NoHandler
    /\ UNCHANGED <<pc, request, upload_dir, vectorstore, response,
                   vector_path, chunkerVars, extractVars, formatVars>>

LoopNext ==
    \E c \in Clients :
        \/ Arrive(c)
        \/ UploadFails(c) \/ UploadEmbedded(c)
        \/ SaveMkdir(c) \/ SaveFaiss(c) \/ SavePkl(c) \/ UploadFinish(c)
        \/ QueryNoIndex(c) \/ LoadFaiss(c) \/ LoadPkl(c) \/ QueryAnswer(c)

SpecLoop == LoopInit /\ [][LoopNext]_vars

----------------------------------------------------------------------------
(* Properties of smart_text_chunker *)

Returned == pc = "returned"
Content(k) == chunks[k].page_content
Oversized(k) == Len(Content(k)) > max_chars

\* C1, as claimed: every emitted chunk has length <= max_chars, unless its
\* content is exactly one paragraph of the unit whose own length exceeds
\* max_chars.
C1_BoundOrExactParagraph ==
    \A k \in 1..Len(chunks) :
        \/ Len(Content(k)) <= max_chars
        \/ \E i \in 1..Len(paragraphs) :
              /\ Len(paragraphs[i]) > max_chars
              /\ Content(k) = paragraphs[i]

\* C1, amended: every emitted chunk has length <= max_chars, unless its
\* content is exactly one paragraph of the unit, with its leading and trailing
\* whitespace removed, whose own length exceeds max_chars.
C1_BoundOrTrimmedParagraph ==
    \A k \in 1..Len(chunks) :
        \/ Len(Content(k)) <= max_chars
        \/ \E i \in 1..Len(paragraphs) :
              /\ Len(paragraphs[i]) > max_chars
              /\ Content(k) = Strip(paragraphs[i])

\* a returned call with an oversized chunk next to a bounded, non-empty one
C1_Witness ==
    /\ Returned
    /\ \E k, j \in 1..Len(chunks) :
          /\ Oversized(k)
          /\ Content(j) # <<>> /\ Len(Content(j)) <= max_chars

\* a paragraph that trimming leaves alone: not empty, no whitespace at its ends
Trimmed(p) == p # <<>> /\ Strip(p) = p

\* C2: a unit that is a single paragraph longer than max_chars gives exactly
\* one chunk, whose content is that paragraph and whose metadata is the
\* unit's (page, kind text, no reference). Stated for a paragraph that
\* trimming leaves alone, as the claim's 1200 characters of text.
C2_SingleOversizedParagraph ==
    (/\ Returned
     /\ Len(paragraphs) = 1
     /\ Len(paragraphs[1]) > max_chars
     /\ Trimmed(paragraphs[1]))
        => chunks = <<Document(paragraphs[1], doc.metadata)>>

\* the paragraphs of the emitted chunks, in chunk order
RECURSIVE ChunkParagraphs(_)
ChunkParagraphs(cs) ==
    IF cs = <<>> THEN <<>>
    ELSE Split(cs[1].page_content) \o ChunkParagraphs(Tail(cs))

\* C3: splitting each emitted chunk on blank lines and concatenating the
\* paragraph lists in chunk order gives the unit's paragraph sequence (no
\* paragraph dropped, duplicated, reordered or added). Stated for the units
\* whose paragraphs trimming leaves alone, where a chunk's content is the
\* buffer's paragraphs verbatim.
C3_ParagraphsPreserved ==
    (Returned /\ \A i \in 1..Len(paragraphs) : Trimmed(paragraphs[i]))
        => ChunkParagraphs(chunks) = paragraphs

\* C4, as claimed: a unit whose whole content is shorter than max_chars gives
\* exactly one chunk, the content with leading and trailing whitespace removed.
C4_ShortUnitOneChunk ==
    (Returned /\ Len(doc.page_content) < max_chars)
        => chunks = <<Document(Strip(doc.page_content), doc.metadata)>>

\* C4, amended: a unit whose whole content is shorter than max_chars and not
\* all whitespace gives exactly one chunk, the content with leading and
\* trailing whitespace removed; an all-whitespace unit gives no chunk.
C4_ShortUnitOneChunkUnlessBlank ==
    (Returned /\ Len(doc.page_content) < max_chars)
        => chunks = IF Strip(doc.page_content) = <<>> THEN <<>>
                    ELSE <<Document(Strip(doc.page_content), doc.metadata)>>

\* a returned call on a short unit of several paragraphs, packed into one chunk
C4_Witness ==
    /\ Returned
    /\ Len(doc.page_content) < max_chars
    /\ Len(paragraphs) >= 2
    /\ Len(chunks) = 1
    /\ chunks[1].page_content # doc.page_content

----------------------------------------------------------------------------
(* Properties of get_chunked_docs and raw_document_text *)

IsPassThrough(d) == d.metadata.type # "text"
NonText(ds) == SelectSeq(ds, IsPassThrough)

\* the unit a chunk comes from: metadata (page, kind, reference) names a unit
UnitIndex(c) ==
    CHOOSE i \in 1..Len(documents) : documents[i].metadata = c.metadata

\* C5: every table unit and every image unit gives exactly one chunk with the
\* same content and metadata, whatever its length; these chunks are in the
\* order of the units, and all chunks (text chunks included) follow the order
\* of the units they come from.
C5_TablesAndImagesPassThrough ==
    pc \in {"chunk", "chunked"} =>
        /\ NonText(chunked_docs) = NonText(SubSeq(documents, 1, doc_i - 1))
        /\ \A a \in 1..Len(chunked_docs) :
              \E i \in 1..(doc_i - 1) : documents[i].metadata = chunked_docs[a].metadata
        /\ \A a, b \in 1..Len(chunked_docs) :
              a < b => UnitIndex(chunked_docs[a]) <= UnitIndex(chunked_docs[b])

\* a finished call whose chunks hold, in this order, a text chunk, a table
\* chunk longer than max_chars, an image chunk and another text chunk
C5_Witness ==
    /\ pc = "chunked"
    /\ \E a, b, c, d \in 1..Len(chunked_docs) :
          /\ a < b /\ b < c /\ c < d
          /\ chunked_docs[a].metadata.type = "text"
          /\ chunked_docs[b].metadata.type = "table"
          /\ Len(chunked_docs[b].page_content) > DefaultMaxChars
          /\ chunked_docs[c].metadata.type = "image"
          /\ chunked_docs[d].metadata.type = "text"

\* C8: a table or image failure on a page of an openable PDF does not abort
\* the extraction: the call does not raise, and the list it returns holds the
\* items produced on every page, the failing page's included.
C8_PageFailureIsolated ==
    /\ pdf.openable => pc # "raised"
    /\ pc \in {"chunk", "chunked"} =>
          \A p \in 1..Len(pdf.pages) :
              \A k \in 1..Len(ExtractPage(pdf.pages[p], p).items) :
                  \E j \in 1..Len(raw_docs) :
                      raw_docs[j] = ExtractPage(pdf.pages[p], p).items[k]

----------------------------------------------------------------------------
(* Properties of format_docs_with_metadata *)

\* the header the claim gives for a chunk
ClaimedHeader(d) ==
    IF "ref" \in DOMAIN d.metadata
    THEN <<"(", "P", "a", "g", "e", " ">> \o IntToStr(d.metadata.page)
         \o <<",", " ">> \o d.metadata.ref \o <<")">>
    ELSE <<"(", "P", "a", "g", "e", " ">> \o IntToStr(d.metadata.page) \o <<")">>

\* the rendering the claim gives: block, blank line, block, ...
RECURSIVE ClaimedRendering(_)
ClaimedRendering(ds) ==
    IF ds = <<>> THEN <<>>
    ELSE ClaimedHeader(ds[1]) \o <<NL>> \o ds[1].page_content
         \o (IF Len(ds) > 1 THEN <<NL, NL>> \o ClaimedRendering(Tail(ds)) ELSE <<>>)

\* s starts with prefix
StartsWith(s, prefix) ==
    Len(prefix) <= Len(s) /\ SubSeq(s, 1, Len(prefix)) = prefix

\* C10: n chunks are rendered as n blocks in retrieval order joined by one
\* blank line, none dropped, deduplicated or truncated; a block is the header
\* '(Page <page>)' or '(Page <page>, <reference>)', a newline and the chunk's
\* content; page 4 with reference 'Table 2' gives '(Page 4, Table 2)' and
\* page 7 without reference gives '(Page 7)'.
C10_RenderedInOrder ==
    /\ \A i \in 1..Len(formatted) :
          /\ formatted[i] = ClaimedHeader(docs[i]) \o <<NL>> \o docs[i].page_content
          /\ docs[i].metadata = TableMeta(4, 1) =>
                StartsWith(formatted[i],
                           <<"(", "P", "a", "g", "e", " ", "4", ",", " ",
                             "T", "a", "b", "l", "e", " ", "2", ")", NL>>)
          /\ docs[i].metadata = TextMeta(7) =>
                StartsWith(formatted[i], <<"(", "P", "a", "g", "e", " ", "7", ")", NL>>)
    /\ pc = "formatted" =>
          /\ Len(formatted) = Len(docs)
          /\ result = ClaimedRendering(docs)

\* a finished call on three chunks, two of them the same chunk, with and
\* without a reference
C10_Witness ==
    /\ pc = "formatted"
    /\ Len(docs) = 3
    /\ docs[1] = docs[3]
    /\ docs[1].metadata = TableMeta(4, 1)
    /\ docs[2].metadata = TextMeta(7)

----------------------------------------------------------------------------
(* Properties of the service *)

\* C6: while no upload has stored an index, a query fails with the
\* not-yet-initialized error, which is what the caller gets; the language
\* model has not been invoked and no answer has been returned, whatever
\* uploads and queries failed before.
C6_QueryBeforeIngestion ==
    ~vectorstore.exists =>
        /\ llm_calls = 0
        /\ system_stats.total_queries = 0
        /\ system_stats.total_uploads = 0
        /\ pc = "query" => response = HttpError(500, NotFoundMessage)

\* a query refused for want of an index, after an upload has failed
C6_Witness ==
    /\ pc = "query"
    /\ ~vectorstore.exists
    /\ upload_dir # {}
    /\ response = HttpError(500, NotFoundMessage)

Range(seq) == {seq[i] : i \in 1..Len(seq)}

\* C7: a successful ingestion adds its chunks to the index and removes none
\* of an earlier document's, so that the index holds the chunks of all the
\* documents ingested so far.
C7_IngestionOnlyAdds ==
    [][Range(vectorstore.docs) \subseteq Range(vectorstore'.docs)]_vars

\* the upload is an input error: not a .pdf name, or a PDF that does not open
InputError(file) == ~EndsWith(file.filename, PdfSuffix) \/ ~file.pdf.openable

\* C9: an upload that is an input error is answered with an error and
\* changes nothing: no file is added to the upload directory, the stored
\* index and total_uploads are as before.
C9_InputErrorChangesNothing ==
    [][(request'.op = "upload" /\ pc' = "upload" /\ InputError(request'.file))
         => /\ response'.status >= 400
            /\ upload_dir' = upload_dir
            /\ vectorstore' = vectorstore
            /\ system_stats'.total_uploads = system_stats.total_uploads]_vars

----------------------------------------------------------------------------
(* Properties of the packing loop of smart_text_chunker *)

\* the paragraph the loop is at
Para == paragraphs[para_i]
\* the step is an iteration of the loop
Iteration == pc = "pack" /\ para_i <= Len(paragraphs) /\ para_i' = para_i + 1
\* the iteration appended the paragraph and its separator to the buffer
Appended == buffer' = buffer \o Para \o Sep /\ chunks' = chunks
\* the iteration flushed the buffer as a chunk and restarted it with the paragraph
Flushed ==
    /\ buffer' = Para \o Sep
    /\ chunks' = Append(chunks, Document(Strip(buffer), doc.metadata))

\* C12, as claimed: a paragraph is appended exactly when the buffer's length
\* after appending the paragraph and its separator is <= max_chars; otherwise
\* the buffer is flushed and restarted with the paragraph.
C12_AppendIffFitsWithSeparator ==
    [][Iteration =>
         IF Len(buffer \o Para \o Sep) <= max_chars THEN Appended ELSE Flushed]_vars

\* C12, amended: a paragraph is appended exactly when the buffer's length
\* (the separators after the earlier paragraphs included) plus the
\* paragraph's length, without the paragraph's own separator, is <=
\* max_chars; otherwise the buffer is flushed and restarted with the
\* paragraph.
C12_AppendIffFitsWithoutOwnSeparator ==
    [][Iteration =>
         IF Len(buffer) + Len(Para) <= max_chars THEN Appended ELSE Flushed]_vars

\* two paragraphs merged in a buffer that, with the second paragraph's
\* separator, is longer than max_chars (the claim's 250 and 248 with 500)
C12_Witness ==
    /\ pc = "pack"
    /\ Len(paragraphs) = 2
    /\ para_i = 3
    /\ chunks = <<>>
    /\ buffer = paragraphs[1] \o Sep \o paragraphs[2] \o Sep
    /\ Len(buffer) > max_chars
    /\ Trimmed(paragraphs[1]) /\ Trimmed(paragraphs[2])

\* C13: every chunk smart_text_chunker emits has non-empty content after
\* trimming, also when the buffer is empty or all whitespace at the moment a
\* paragraph does not fit.
C13_NoBlankChunk ==
    \A k \in 1..Len(chunks) : Strip(chunks[k].page_content) # <<>>

----------------------------------------------------------------------------
(* Properties of requests in flight together *)

\* the handler is between the first and the last write of save_local
Saving(c) == Handler(c).pc \in {"save_faiss", "save_pkl"}

\* the two files are of the same ingestion, or both missing
Complete(faiss, pkl) == faiss = pkl

\* C11: a query in flight with an upload (or two uploads in flight together)
\* never sees a partly written index: what a query loads is a complete
\* index, the one before or the one after an ingestion, never a directory
\* with a file missing nor the vectors of one ingestion with the documents
\* of another; and when no save is under way the files at VECTOR_PATH are
\* those of one ingestion.
C11_NoPartialIndexObserved ==
    /\ \A c \in Clients :
          /\ Handler(c).pc \in {"answer", "done"} /\ Handler(c).loaded.faiss.present
                => Complete(Handler(c).loaded.faiss, Handler(c).loaded.pkl)
          /\ Handler(c).pc = "load_pkl"
                => Complete(Handler(c).loaded.faiss, vector_path.pkl)
          /\ Handler(c).detail # MissingFileMessage
    /\ (\A c \in Clients : ~Saving(c) /\ Handler(c).pc # "save")
          => Complete(vector_path.faiss, vector_path.pkl)
    /\ \A c, d \in Clients : (c # d /\ Saving(c)) => ~Saving(d)

\* a query waits while, over the index of an earlier upload, another upload
\* has written index.faiss and not yet index.pkl
C11_Witness ==
    \E c, d \in Clients :
        /\ Handler(c).pc = "save_pkl"
        /\ vector_path.pkl.present
        /\ vector_path.pkl # vector_path.faiss
        /\ Handler(d).pc = "pending" /\ Handler(d).op = "query"

====
